---- MODULE Spec2Model ----
(***************************************************************************)
(* Model of src/main.py, the Windows wallpaper changer: one interactive    *)
(* run of main().  Strings are sequences of one-character strings so that  *)
(* strip(), lower(), startswith(), urlparse().path and os.path.basename()  *)
(* are computed character by character, as the code computes them.         *)
(***************************************************************************)
EXTENDS Integers, Sequences, FiniteSets, TLC

VARIABLES pc, status, choice, local_path, web_url, content_type, file_name,
          image_path, downloaded_file, success, disk, out, trace,
          typed1, typed2, disk0, existsArg, applyArg, deleted, produced,
          getUrl, getError, statusCode, removeResult

vars == <<pc, status, choice, local_path, web_url, content_type, file_name,
          image_path, downloaded_file, success, disk, out, trace,
          typed1, typed2, disk0, existsArg, applyArg, deleted, produced,
          getUrl, getError, statusCode, removeResult>>

(* Largest number of blanks typed before and after an answer at a prompt.  *)
MaxPad == 1

(* Python's None, and the value of a variable that is not bound yet.       *)
None == <<"None">>

------------------------------------------------------------------------------
(* Text                                                                    *)

LocalWord == <<"l","o","c","a","l">>
WebWord == <<"w","e","b">>
HTTP == <<"h","t","t","p",":","/","/">>
HTTPS == <<"h","t","t","p","s",":","/","/">>
JPG == <<".","j","p","g">>
PNG == <<".","p","n","g">>
DEFAULT_NAME == <<"d","o","w","n","l","o","a","d","e","d","_",
                  "w","a","l","l","p","a","p","e","r">>
IMAGE_PNG == <<"i","m","a","g","e","/","p","n","g">>
IMAGE_JPEG == <<"i","m","a","g","e","/","j","p","e","g">>

Whitespace == {" "}

LowerMap == ("A" :> "a") @@ ("B" :> "b") @@ ("E" :> "e") @@ ("H" :> "h") @@
            ("L" :> "l") @@ ("P" :> "p") @@ ("T" :> "t") @@ ("W" :> "w")

LowerChar(c) == IF c \in DOMAIN LowerMap THEN LowerMap[c] ELSE c

(* str.lower()                                                             *)
Lower(s) == [i \in 1..Len(s) |-> LowerChar(s[i])]

RECURSIVE LStrip(_)
LStrip(s) == IF s # <<>> /\ Head(s) \in Whitespace THEN LStrip(Tail(s)) ELSE s

RECURSIVE RStrip(_)
RStrip(s) == IF s # <<>> /\ s[Len(s)] \in Whitespace
             THEN RStrip(SubSeq(s, 1, Len(s) - 1)) ELSE s

(* str.strip()                                                             *)
Strip(s) == RStrip(LStrip(s))

(* str.startswith(p)                                                       *)
StartsWith(s, p) == Len(s) >= Len(p) /\ SubSeq(s, 1, Len(p)) = p

(* choice.startswith(('http://', 'https://'))                              *)
LooksLikeUrl(s) == StartsWith(s, HTTP) \/ StartsWith(s, HTTPS)

RECURSIVE TakeUntil(_, _)
TakeUntil(s, stops) == IF s = <<>> \/ Head(s) \in stops THEN <<>>
                       ELSE <<Head(s)>> \o TakeUntil(Tail(s), stops)

RECURSIVE DropUntil(_, _)
DropUntil(s, stops) == IF s = <<>> \/ Head(s) \in stops THEN s
                       ELSE DropUntil(Tail(s), stops)

(* urlparse(url).path: what follows the network location, up to the query  *)
(* or the fragment.                                                        *)
UrlPath(url) ==
    LET rest == IF StartsWith(url, HTTPS) THEN SubSeq(url, Len(HTTPS) + 1, Len(url))
                ELSE IF StartsWith(url, HTTP) THEN SubSeq(url, Len(HTTP) + 1, Len(url))
                ELSE url
        afterNetloc == IF LooksLikeUrl(url) THEN DropUntil(rest, {"/", "?", "#"})
                       ELSE rest
    IN TakeUntil(afterNetloc, {"?", "#"})

(* os.path.basename(p)                                                     *)
Basename(p) ==
    LET seps == {i \in 1..Len(p) : p[i] = "/"}
    IN IF seps = {} THEN p
       ELSE SubSeq(p, (CHOOSE i \in seps : \A j \in seps : j <= i) + 1, Len(p))

(* "." in file_name                                                        *)
HasDot(name) == \E i \in 1..Len(name) : name[i] = "."

(* mimetypes.guess_extension(type): None for a type it does not know.      *)
GuessExtension(type) ==
    IF type = IMAGE_PNG THEN PNG
    ELSE IF type = IMAGE_JPEG THEN JPG
    ELSE None

(* content_type.split(";")[0].strip()                                      *)
MimeOf(header) == Strip(TakeUntil(header, {";"}))

(* Lines 55-62: the name the body is saved under.                          *)
ResolveFileName(url, header) ==
    LET base == Basename(UrlPath(url))
    IN IF base = <<>> \/ ~HasDot(base)
       THEN LET guess == GuessExtension(MimeOf(header))
            IN DEFAULT_NAME \o (IF guess # None THEN guess ELSE JPG)
       ELSE base

(* os.getcwd()                                                             *)
Cwd == <<"/","w">>

(* os.path.join(os.getcwd(), file_name) for a name without separators      *)
Join(dir, name) == dir \o <<"/">> \o name

(* os.path.abspath(p)                                                      *)
Abs(p) == IF p # <<>> /\ Head(p) = "/" THEN p ELSE Join(Cwd, p)

(* os.path.exists(p) on the files d                                        *)
Exists(p, d) == p # <<>> /\ Abs(p) \in d

------------------------------------------------------------------------------
(* Inputs of a run                                                         *)

RECURSIVE Blanks(_)
Blanks(n) == IF n = 0 THEN <<>> ELSE <<" ">> \o Blanks(n - 1)

Padded(S) == {Blanks(i) \o s \o Blanks(j) : s \in S, i \in 0..MaxPad, j \in 0..MaxPad}

Urls == { HTTP \o <<"h","/","a",".","j","p","g">>,
          HTTPS \o <<"h","/","A",".","j","p","g">>,
          HTTP \o <<"h","/","b","?","x",".","y">>,
          HTTP \o <<"h","/","d","/">>,
          HTTP \o <<"h","/","c",".">> }

NoSchemeUrls == { <<"h","/","a",".","j","p","g">> }

FirstInputs == Padded({ LocalWord, <<"L","o","c","a","l">>, WebWord, <<"W","E","B">>,
                        <<"b","a","n","a","n","a">>, <<>>,
                        <<"H","T","T","P",":","/","/","h">> } \cup Urls)

PathInputs == Padded({ <<"a",".","j","p","g">>, <<"/","w","/","a",".","j","p","g">>,
                       <<"n","o">>, <<>> })

UrlInputs == Padded(Urls \cup NoSchemeUrls)

(* Files that may be in the working directory before the run.              *)
InitialFiles == { Join(Cwd, <<"a",".","j","p","g">>),
                  Join(Cwd, <<" ","a",".","j","p","g">>) }

ContentTypes == { IMAGE_PNG, IMAGE_JPEG \o <<";"," ","q">>, <<"x","/","y">>, <<>> }

------------------------------------------------------------------------------
(* Exceptions                                                              *)

RequestExceptions == {"ConnectionError", "Timeout", "HTTPError", "MissingSchema"}

(* Subclasses of Exception; KeyboardInterrupt and SystemExit are not.      *)
Exceptions == RequestExceptions \cup {"EOFError", "OSError", "AttributeError"}

(* Lines 72-77: download_web_image prints and re-raises.                   *)
DownloadCatch(e) ==
    IF e \in RequestExceptions THEN <<"Error downloading image (download)">>
    ELSE IF e \in Exceptions THEN <<"Error saving image">>
    ELSE <<>>

(* main with a bare `except:' in place of `except Exception'.              *)
MainCatchBareExcept(e) ==
    IF e = "KeyboardInterrupt"
    THEN [status |-> "returned", out |-> <<"Operation cancelled by user.">>]
    ELSE IF e \in RequestExceptions
    THEN [status |-> "returned",
          out |-> <<"Error downloading image",
                    "Please check the URL and your internet connection.">>]
    ELSE [status |-> "returned", out |-> <<"An error occurred", "traceback">>]

(* main without its catch-all handler.                                     *)
MainCatchNoCatchAll(e) ==
    IF e = "KeyboardInterrupt"
    THEN [status |-> "returned", out |-> <<"Operation cancelled by user.">>]
    ELSE IF e \in RequestExceptions
    THEN [status |-> "returned",
          out |-> <<"Error downloading image",
                    "Please check the URL and your internet connection.">>]
    ELSE [status |-> IF e = "SystemExit" THEN "exit1" ELSE "unhandled",
          out |-> <<>>]

(* Lines 135-143: the handlers of main, tried in order.  SystemExit is a   *)
(* BaseException that none of them names, so it leaves main and ends the   *)
(* process with the status given to sys.exit.                              *)
MainCatch(e) ==
    IF e = "KeyboardInterrupt"
    THEN [status |-> "returned", out |-> <<"Operation cancelled by user.">>]
    ELSE IF e \in RequestExceptions
    THEN [status |-> "returned",
          out |-> <<"Error downloading image",
                    "Please check the URL and your internet connection.">>]
    ELSE IF e \in Exceptions
    THEN [status |-> "returned", out |-> <<"An error occurred", "traceback">>]
    ELSE [status |-> IF e = "SystemExit" THEN "exit1" ELSE "unhandled",
          out |-> <<>>]

(* An exception e raised in the try block of main after printing `printed'. *)
Raise(e, printed) ==
    /\ pc' = "end"
    /\ status' = MainCatch(e).status
    /\ out' = out \o printed \o MainCatch(e).out

------------------------------------------------------------------------------
(* State after construction: main is about to call get_user_choice.        *)

Init ==
    /\ pc = "choice"
    /\ status = "running"
    /\ choice = None
    /\ local_path = None
    /\ web_url = None
    /\ content_type = None
    /\ file_name = None
    /\ image_path = None
    /\ downloaded_file = FALSE
    /\ success = "unset"
    /\ disk0 \in SUBSET InitialFiles
    /\ disk = disk0
    /\ out = <<>>
    /\ trace = <<>>
    /\ typed1 = None
    /\ typed2 = None
    /\ existsArg = None
    /\ applyArg = None
    /\ deleted = {}
    /\ produced = {}
    /\ getUrl = None
    /\ getError = "none"
    /\ statusCode = 0
    /\ removeResult = "uncalled"

inputVars == <<choice, local_path, web_url, typed1, typed2>>
fetchVars == <<content_type, file_name, produced, getUrl, getError, statusCode>>
fileVars == <<disk, disk0, deleted, removeResult>>
applyVars == <<success, applyArg>>

------------------------------------------------------------------------------
(* The answer lowered before the URL test.                                 *)
CleanChoiceLowered(t) == Lower(Strip(t))

(* Line 25: the answer to the first prompt, trimmed.                       *)
CleanChoice(t) == Strip(t)

(* get_user_choice, lines 24-44, up to its second prompt, its return or    *)
(* sys.exit(1).                                                            *)
ReadChoice ==
    /\ pc = "choice"
    /\ \/ \E t \in FirstInputs :
            LET c == CleanChoice(t)
                lc == Lower(c)
            IN /\ typed1' = t
               /\ IF LooksLikeUrl(c)
                  THEN /\ choice' = WebWord
                       /\ local_path' = None
                       /\ web_url' = c
                       /\ pc' = "sleep"
                       /\ status' = status
                       /\ out' = out \o <<"Detected URL input", "You chose">>
                  ELSE IF lc = LocalWord \/ lc = WebWord
                  THEN /\ choice' = lc
                       /\ pc' = IF lc = LocalWord THEN "path" ELSE "url"
                       /\ status' = status
                       /\ out' = out \o <<"You chose">>
                       /\ UNCHANGED <<local_path, web_url>>
                  ELSE /\ Raise("SystemExit", <<"You chose", "Invalid choice.">>)
                       /\ UNCHANGED <<choice, local_path, web_url>>
       \/ \E e \in {"KeyboardInterrupt", "EOFError"} :
            /\ Raise(e, <<>>)
            /\ UNCHANGED <<choice, local_path, web_url, typed1>>
    /\ UNCHANGED <<typed2, fetchVars, fileVars, applyVars, image_path,
                   downloaded_file, trace, existsArg>>

(* The path taken as typed, blanks included.                               *)
ReadLocalPathUnstripped ==
    /\ pc = "path"
    /\ \/ \E t \in PathInputs :
            /\ typed2' = t
            /\ local_path' = t
            /\ web_url' = None
            /\ pc' = "sleep"
            /\ UNCHANGED <<status, out>>
       \/ \E e \in {"KeyboardInterrupt", "EOFError"} :
            /\ Raise(e, <<>>)
            /\ UNCHANGED <<local_path, web_url, typed2>>
    /\ UNCHANGED <<choice, typed1, fetchVars, fileVars, applyVars, image_path,
                   downloaded_file, trace, existsArg>>

(* Lines 37-38: the second prompt of the local choice.                     *)
ReadLocalPath ==
    /\ pc = "path"
    /\ \/ \E t \in PathInputs :
            /\ typed2' = t
            /\ local_path' = Strip(t)
            /\ web_url' = None
            /\ pc' = "sleep"
            /\ UNCHANGED <<status, out>>
       \/ \E e \in {"KeyboardInterrupt", "EOFError"} :
            /\ Raise(e, <<>>)
            /\ UNCHANGED <<local_path, web_url, typed2>>
    /\ UNCHANGED <<choice, typed1, fetchVars, fileVars, applyVars, image_path,
                   downloaded_file, trace, existsArg>>

(* Lines 40-41: the second prompt of the web choice.                       *)
ReadWebUrl ==
    /\ pc = "url"
    /\ \/ \E t \in UrlInputs :
            /\ typed2' = t
            /\ web_url' = Strip(t)
            /\ local_path' = None
            /\ pc' = "sleep"
            /\ UNCHANGED <<status, out>>
       \/ \E e \in {"KeyboardInterrupt", "EOFError"} :
            /\ Raise(e, <<>>)
            /\ UNCHANGED <<local_path, web_url, typed2>>
    /\ UNCHANGED <<choice, typed1, fetchVars, fileVars, applyVars, image_path,
                   downloaded_file, trace, existsArg>>

(* Lines 98-104: the feedback delay, which the user may interrupt.         *)
Sleep ==
    /\ pc = "sleep"
    /\ \/ /\ pc' = "source"
          /\ out' = out \o <<"Processing complete.">>
          /\ status' = status
       \/ Raise("KeyboardInterrupt", <<>>)
    /\ UNCHANGED <<inputVars, fetchVars, fileVars, applyVars, image_path,
                   downloaded_file, trace, existsArg>>

(* Every run downloads.                                                    *)
IsWebChoiceAlways == TRUE

(* Line 107: choice == "web"                                               *)
IsWebChoice == choice = WebWord

(* Lines 111-113: the local path is used as it is and is not the run's to  *)
(* delete.                                                                 *)
UseLocalPath ==
    /\ pc = "source"
    /\ ~IsWebChoice
    /\ image_path' = local_path
    /\ downloaded_file' = FALSE
    /\ pc' = "exists"
    /\ UNCHANGED <<status, out, inputVars, fetchVars, fileVars, applyVars,
                   trace, existsArg>>

(* Status codes a server may answer with, after redirects.                 *)
StatusCodes == {200, 404, 503}

(* No status check at all.                                                 *)
RaisesForStatusNever(code) == FALSE

(* Line 52: raise_for_status raises HTTPError for a 4xx or 5xx answer.     *)
RaisesForStatus(code) == code >= 400 /\ code < 600

(* Lines 107-109 and 51-52: requests.get with its timeout, then            *)
(* raise_for_status.  A URL without a scheme is refused by requests before *)
(* anything is sent; otherwise the transport fails, or a response arrives. *)
HttpGet ==
    /\ pc = "source"
    /\ IsWebChoice
    /\ trace' = Append(trace, "GET")
    /\ getUrl' = web_url
    /\ LET printed == <<"Attempting to download", "Downloading image">>
       IN \/ /\ LooksLikeUrl(web_url)
             /\ \E code \in StatusCodes, h \in ContentTypes :
                  /\ statusCode' = code
                  /\ IF RaisesForStatus(code)
                     THEN /\ getError' = "HTTPError"
                          /\ Raise("HTTPError", printed \o DownloadCatch("HTTPError"))
                          /\ UNCHANGED content_type
                     ELSE /\ getError' = "none"
                          /\ content_type' = h
                          /\ pc' = "save"
                          /\ out' = out \o printed
                          /\ status' = status
          \/ /\ \E e \in IF LooksLikeUrl(web_url)
                         THEN {"ConnectionError", "Timeout", "KeyboardInterrupt"}
                         ELSE {"MissingSchema"} :
                   /\ getError' = e
                   /\ Raise(e, printed \o DownloadCatch(e))
             /\ UNCHANGED <<content_type, statusCode>>
    /\ UNCHANGED <<inputVars, file_name, produced, fileVars, applyVars,
                   image_path, downloaded_file, existsArg>>

(* Lines 54-70 and 109-110: the name is resolved, the body is written to   *)
(* the working directory over any file of that name, and main marks the    *)
(* path as downloaded.  open() may fail, or write() may fail leaving the   *)
(* file behind.                                                            *)
SaveImage ==
    /\ pc = "save"
    /\ LET name == ResolveFileName(web_url, content_type)
           save_path == Join(Cwd, name)
       IN /\ file_name' = name
          /\ trace' = Append(trace, "WRITE")
          /\ \/ /\ disk' = disk \cup {save_path}
                /\ image_path' = save_path
                /\ downloaded_file' = TRUE
                /\ produced' = produced \cup {save_path}
                /\ pc' = "exists"
                /\ out' = out \o <<"Image saved">>
                /\ status' = status
             \/ /\ disk' \in {disk, disk \cup {save_path}}
                /\ Raise("OSError", DownloadCatch("OSError"))
                /\ UNCHANGED <<image_path, downloaded_file, produced>>
    /\ UNCHANGED <<inputVars, content_type, getUrl, getError, statusCode, disk0,
                   deleted, removeResult, applyVars, existsArg>>

(* No existence check.                                                     *)
FileMissingNever == FALSE

(* Line 116: not os.path.exists(image_path)                                *)
FileMissing == ~Exists(image_path, disk)

(* Lines 115-120: the existence check.                                     *)
Validate ==
    /\ pc = "exists"
    /\ existsArg' = image_path
    /\ trace' = Append(trace, "EXISTS")
    /\ IF FileMissing
       THEN /\ pc' = "end"
            /\ status' = "returned"
            /\ out' = out \o <<"Error: Image file not found">>
       ELSE /\ pc' = "apply"
            /\ status' = status
            /\ out' = out \o <<"Attempting to set wallpaper">>
    /\ UNCHANGED <<inputVars, fetchVars, fileVars, applyVars, image_path,
                   downloaded_file>>

(* Lines 122 and 80-89: set_wallpaper returns what the platform call       *)
(* returned, or the call raises (no windll on this platform, for one).     *)
Apply ==
    /\ pc = "apply"
    /\ applyArg' = image_path
    /\ trace' = Append(trace, "APPLY")
    /\ \/ /\ success' = "nonzero"
          /\ out' = out \o <<"Wallpaper successfully changed">>
          /\ pc' = "cleanup"
          /\ status' = status
       \/ /\ success' = "zero"
          /\ out' = out \o <<"Failed to change wallpaper">>
          /\ pc' = "cleanup"
          /\ status' = status
       \/ /\ \E e \in {"AttributeError", "OSError"} : Raise(e, <<>>)
          /\ UNCHANGED success
    /\ UNCHANGED <<inputVars, fetchVars, fileVars, image_path, downloaded_file,
                   existsArg>>

(* Deletes after a successful set, whatever the source.                    *)
ShouldDeleteAnySource == success = "nonzero"

(* Deletes a download, whatever the result of the set.                     *)
ShouldDeleteAnyResult == downloaded_file

(* Line 125: success and downloaded_file                                   *)
ShouldDelete == success = "nonzero" /\ downloaded_file

(* Lines 124-133: the downloaded file is removed after a successful set;   *)
(* a failing os.remove is only warned about.  main then returns.           *)
Cleanup ==
    /\ pc = "cleanup"
    /\ pc' = "end"
    /\ status' = "returned"
    /\ IF ShouldDelete
       THEN /\ trace' = Append(trace, "DELETE")
            /\ \/ /\ disk' = disk \ {Abs(image_path)}
                  /\ deleted' = deleted \cup {Abs(image_path)}
                  /\ removeResult' = "ok"
                  /\ out' = out \o <<"Deleting downloaded file",
                                     "Downloaded image deleted">>
               \/ /\ out' = out \o <<"Deleting downloaded file",
                                     "Warning: Could not delete downloaded image">>
                  /\ removeResult' = "OSError"
                  /\ UNCHANGED <<disk, deleted>>
       ELSE IF success # "nonzero"
       THEN /\ out' = out \o <<"Wallpaper setting failed - keeping downloaded file">>
            /\ UNCHANGED <<trace, disk, deleted, removeResult>>
       ELSE UNCHANGED <<trace, disk, deleted, removeResult, out>>
    /\ UNCHANGED <<inputVars, fetchVars, disk0, applyVars, image_path,
                   downloaded_file, existsArg>>

Next ==
    \/ ReadChoice
    \/ ReadLocalPath
    \/ ReadWebUrl
    \/ Sleep
    \/ UseLocalPath
    \/ HttpGet
    \/ SaveImage
    \/ Validate
    \/ Apply
    \/ Cleanup

Spec == Init /\ [][Next]_vars

------------------------------------------------------------------------------
(* Properties                                                              *)

Occurred(ev) == \E i \in 1..Len(trace) : trace[i] = ev

Count(ev) == Cardinality({i \in 1..Len(trace) : trace[i] = ev})

Printed(m) == \E i \in 1..Len(out) : out[i] = m

(* The first answer is none of local, web or a URL.                        *)
InvalidChoice(t) ==
    /\ ~LooksLikeUrl(Strip(t))
    /\ Lower(Strip(t)) \notin {LocalWord, WebWord}

(* The run went through the local prompt.                                  *)
LocalRun == typed1 # None /\ Lower(Strip(typed1)) = LocalWord

(* Part of a file name after its last dot is not empty.                    *)
HasExtension(name) ==
    LET dots == {i \in 1..Len(name) : name[i] = "."}
    IN dots # {} /\ \A i \in dots : \E j \in dots : j >= i /\ j < Len(name)

(* C1: a file is deleted only if download_web_image produced its path in   *)
(* this run and set_wallpaper reported success; a run that took the local  *)
(* choice calls os.remove on nothing and leaves the disk as it was.        *)
C1_DeleteOnlyDownloadAfterSuccess ==
    /\ \A p \in deleted : p \in produced /\ success = "nonzero"
    /\ Occurred("DELETE") =>
          /\ downloaded_file
          /\ success = "nonzero"
          /\ Abs(image_path) \in produced
    /\ LocalRun =>
          /\ deleted = {}
          /\ ~Occurred("DELETE")
          /\ disk = disk0
          /\ (local_path # None => Abs(local_path) \notin deleted)

C1_Witness ==
    /\ pc = "end"
    /\ deleted # {}
    /\ deleted \subseteq produced
    /\ success = "nonzero"

(* C2 as stated: at the end of a web run that reached set_wallpaper, the   *)
(* downloaded file is absent if the set succeeded and present if it failed. *)
C2_Original ==
    (pc = "end" /\ choice = WebWord /\ Occurred("APPLY")) =>
        /\ success = "nonzero" => Abs(image_path) \notin disk
        /\ success # "nonzero" => Abs(image_path) \in disk

(* C2 amended: at the end of a web run that reached set_wallpaper, the     *)
(* downloaded file is absent if the set succeeded and os.remove succeeded; *)
(* it is still on disk, with a warning printed, if the set succeeded and   *)
(* os.remove raised OSError; it is still on disk, and os.remove was never  *)
(* called, if the set reported failure or raised.                          *)
C2_AbsentUnlessRemoveFails ==
    (pc = "end" /\ choice = WebWord /\ Occurred("APPLY")) =>
        /\ (success = "nonzero" /\ removeResult = "ok") =>
              Abs(image_path) \notin disk
        /\ (success = "nonzero" /\ removeResult # "ok") =>
              /\ removeResult = "OSError"
              /\ Abs(image_path) \in disk
              /\ Printed("Warning: Could not delete downloaded image")
        /\ success # "nonzero" =>
              /\ Abs(image_path) \in disk
              /\ removeResult = "uncalled"

C2_Witness ==
    /\ pc = "end"
    /\ choice = WebWord
    /\ success = "nonzero"
    /\ removeResult = "OSError"
    /\ Abs(image_path) \in disk

(* C3 as stated: a local run whose typed path exists on disk, and which is *)
(* not cancelled, calls set_wallpaper with exactly the typed path and      *)
(* deletes nothing.                                                        *)
C3_Original ==
    (/\ pc = "end"
     /\ LocalRun
     /\ typed2 # None
     /\ Exists(typed2, disk0)
     /\ ~Printed("Operation cancelled by user.")) =>
        /\ Count("APPLY") = 1
        /\ applyArg = typed2
        /\ deleted = {}
        /\ ~Occurred("DELETE")

(* C3 amended: a local run whose typed path, trimmed of surrounding        *)
(* whitespace, exists on disk, and which is not cancelled, calls           *)
(* set_wallpaper once with exactly the trimmed path; no local run deletes  *)
(* a file, whatever set_wallpaper reports.                                 *)
C3_LocalAppliedTrimmedNeverDeleted ==
    /\ (/\ pc \in {"cleanup", "end"}
        /\ LocalRun
        /\ typed2 # None
        /\ Exists(Strip(typed2), disk0)
        /\ ~Printed("Operation cancelled by user.")) =>
           /\ Count("APPLY") = 1
           /\ applyArg = Strip(typed2)
    /\ LocalRun =>
           /\ deleted = {}
           /\ ~Occurred("DELETE")
           /\ removeResult = "uncalled"
           /\ disk = disk0

C3_Witness ==
    /\ pc = "end"
    /\ LocalRun
    /\ typed2 # Strip(typed2)
    /\ applyArg = Strip(typed2)
    /\ success = "nonzero"
    /\ disk = disk0

(* C4: when the GET fails (request error, timeout or a 4xx/5xx status) the *)
(* run ends having printed the network error, set_wallpaper is never       *)
(* called, and no file is written or deleted.                              *)
C4_GetFailureStopsBeforeApply ==
    (getError \in RequestExceptions \/ statusCode >= 400) =>
        /\ pc = "end"
        /\ status = "returned"
        /\ Printed("Error downloading image")
        /\ Printed("Please check the URL and your internet connection.")
        /\ ~Occurred("WRITE")
        /\ ~Occurred("APPLY")
        /\ ~Occurred("DELETE")
        /\ disk = disk0
        /\ deleted = {}

C4_Witness ==
    /\ statusCode = 404
    /\ getError = "HTTPError"
    /\ pc = "end"
    /\ trace = <<"GET">>

(* C5: when the resolved path is missing at the existence check the run    *)
(* prints the missing-file error and ends with no set_wallpaper call and   *)
(* no deletion; set_wallpaper is only called with a path the existence     *)
(* check has passed.                                                       *)
C5_MissingFileStopsBeforeApply ==
    /\ (existsArg # None /\ ~Exists(existsArg, disk0 \cup produced)) =>
          /\ pc = "end"
          /\ status = "returned"
          /\ out[Len(out)] = "Error: Image file not found"
          /\ ~Occurred("APPLY")
          /\ ~Occurred("DELETE")
          /\ deleted = {}
    /\ Occurred("APPLY") =>
          /\ applyArg = existsArg
          /\ Exists(existsArg, disk0 \cup produced)
          /\ Count("EXISTS") = 1
          /\ ~Printed("Error: Image file not found")

C5_Witness ==
    /\ LocalRun
    /\ existsArg # None
    /\ existsArg # <<>>
    /\ ~Exists(existsArg, disk)
    /\ pc = "end"

(* C6: a first answer that is none of local, web (trimmed, any case) or a  *)
(* string starting with http:// or https:// ends the process with exit     *)
(* status 1, not swallowed by the handlers of main, with no GET, no file   *)
(* written or deleted and no set_wallpaper call.                           *)
C6_InvalidChoiceExits ==
    (typed1 # None /\ InvalidChoice(typed1)) =>
        /\ pc = "end"
        /\ status = "exit1"
        /\ trace = <<>>
        /\ disk = disk0
        /\ deleted = {}
        /\ ~Printed("An error occurred")

C6_Witness ==
    /\ typed1 = <<"b","a","n","a","n","a">>
    /\ status = "exit1"
    /\ pc = "end"

(* C7: a URL typed at the first prompt and the same URL typed at the       *)
(* second prompt after web leave get_user_choice with the same result      *)
(* (web, None, the trimmed URL); the URL fetched, the name the body is     *)
(* saved under and the downloaded-file flag depend on that URL alone and   *)
(* not on the prompt it was typed at.                                      *)
C7_UrlRoutedAsWeb ==
    \A u \in Urls :
        ((typed1 # None /\ Strip(typed1) = u)
           \/ (typed1 # None /\ Lower(Strip(typed1)) = WebWord
                 /\ typed2 # None /\ Strip(typed2) = u)) =>
            /\ choice = WebWord
            /\ local_path = None
            /\ web_url = u
            /\ Occurred("GET") => getUrl = u
            /\ file_name # None => file_name = ResolveFileName(u, content_type)
            /\ Occurred("EXISTS") => (downloaded_file /\ image_path = Join(Cwd, file_name))
            /\ ~LocalRun

C7_Witness ==
    /\ typed1 # None
    /\ Strip(typed1) \in Urls
    /\ Lower(Strip(typed1)) # Strip(typed1)
    /\ typed2 = None
    /\ Occurred("GET")
    /\ getUrl = Strip(typed1)
    /\ pc = "end"
    /\ deleted # {}

(* C8 as stated: the name download_web_image saves the body under always   *)
(* has a non-empty extension.                                              *)
C8_Original == file_name # None => HasExtension(file_name)

(* C9: apart from the invalid-choice exit, every error of a run is caught  *)
(* inside main and the run terminates normally; a failing os.remove only   *)
(* prints a warning and the flow completes.                                *)
C9_ErrorsCaughtInMain ==
    /\ status # "unhandled"
    /\ pc = "end" =>
          IF typed1 # None /\ InvalidChoice(typed1)
          THEN status = "exit1"
          ELSE status = "returned"
    /\ pc # "end" => status = "running"
    /\ removeResult = "OSError" =>
          /\ pc = "end"
          /\ status = "returned"
          /\ out[Len(out)] = "Warning: Could not delete downloaded image"
          /\ ~Printed("An error occurred")

C9_Witness ==
    /\ pc = "end"
    /\ status = "returned"
    /\ Occurred("WRITE")
    /\ ~Occurred("EXISTS")
    /\ Printed("Error saving image")
    /\ Printed("An error occurred")

(* Position of a side effect in the order Fetch, Validate, Apply, Cleanup. *)
Rank(ev) ==
    CASE ev = "GET" -> 1
      [] ev = "WRITE" -> 2
      [] ev = "EXISTS" -> 3
      [] ev = "APPLY" -> 4
      [] ev = "DELETE" -> 5

(* C10: the side effects of a run happen at most once each and in the      *)
(* order GET, write, existence check, set_wallpaper, delete; a write       *)
(* follows a GET, set_wallpaper follows the check, a delete follows        *)
(* set_wallpaper; a local run issues no GET and writes no file.            *)
C10_StepsOnceInOrder ==
    /\ \A i, j \in 1..Len(trace) : i < j => Rank(trace[i]) < Rank(trace[j])
    /\ Occurred("WRITE") => Occurred("GET")
    /\ Occurred("APPLY") => Occurred("EXISTS")
    /\ Occurred("DELETE") => Occurred("APPLY")
    /\ LocalRun => ~Occurred("GET") /\ ~Occurred("WRITE")

C10_Witness ==
    trace = <<"GET", "WRITE", "EXISTS", "APPLY", "DELETE">>

====
